---- MODULE Spec2Model ----
(***************************************************************************)
(* Model of the test-execution report generators                           *)
(*   src/src/framework/utils/html-report-generator.py                      *)
(*   src/src/framework/utils/pdf-report-generator.py                       *)
(*                                                                         *)
(* The state is the invocation (argument, environment, chat configuration),*)
(* the content of the remote tables the generators query and of the chat   *)
(* channel, the generator object's fields and the locals of main, the      *)
(* result of the delivery, the calls made to the                           *)
(* collaborators, the file system, the printed output lines and the exit   *)
(* code.  The rendered report is kept as structured data (one record per   *)
(* module card, one per test row) instead of markup.  Python values that   *)
(* may be missing from a mapping are held as AbsentStr / AbsentNum; every  *)
(* `.get(key, default)` of the source is an explicit test against these.   *)
(***************************************************************************)
EXTENDS Integers, Sequences, FiniteSets, TLC

VARIABLES
    script,           \* which entry point runs: "html" or "pdf"
    pc,               \* control point of the invocation
    argv1,            \* sys.argv[1] (AbsentStr when no argument is given)
    env_run_id,       \* os.getenv('CRON_RUN_ID') (AbsentStr when unset)
    env_repo_version, \* os.getenv('REPO_VERSION') (AbsentStr when unset)
    slack_enabled,    \* SlackNotifier.is_enabled: SLACK_BOT_TOKEN is set
    channel,          \* messages of the chat channel, most recent first
    main_records,     \* records of main in the PDF script: the second fetch
    delivery,         \* what the upload returned and what main printed (None before)
    db_modules,       \* xyne_test_module rows of run "run-1", ORDER BY module_name
    db_run,           \* xyne_test_runs row of run "run-1"
    db_prev_modules,  \* xyne_test_module rows of run "run-0"
    db_summary,       \* test_run_summary rows of run "run-1" (PDF script)
    auth_token,       \* generator.auth_token
    cron_run_id,      \* cron_run_id of main (NoneVal before it is read)
    current_data,     \* parsed_modules returned by fetch_current_run_data
    version_info,     \* current_version / previous_version / previous_run_id locals
    previous_data,    \* result of fetch_previous_run_data (<< >> for None)
    html,             \* what create_html rendered (None before)
    records,          \* records returned by fetch_report_data (<< >> for None)
    summary,          \* what calculate_summary returned (None before)
    output_path,      \* value returned by generate_*_report
    pdf_message_ts,   \* pdf_message_ts of main (HTML script)
    calls,            \* the calls made to the collaborators, in order
    fs,               \* the reports directory and the artifact file on disk
    stdout,           \* the *_OUTPUT_PATH lines printed
    exit_code         \* code passed to sys.exit (AbsentNum while running)

vars == <<script, pc, argv1, env_run_id, env_repo_version, slack_enabled, channel,
          main_records, delivery, db_modules, db_run,
          db_prev_modules, db_summary, auth_token, cron_run_id, current_data,
          version_info, previous_data, html, records, summary, output_path,
          pdf_message_ts, calls, fs, stdout, exit_code>>

----------------------------------------------------------------------------
(* Bounds of the explored inputs *)

MaxAggTests == 2
MaxCurTests == 1
MaxPrevTests == 2
MaxCmpTests == 1
MaxCount == 9
ManyTests == 200

----------------------------------------------------------------------------
(* Python values *)

AbsentStr == "<absent>"
AbsentNum == -1
NoneVal == "None"

GetNum(v, default) == IF v = AbsentNum THEN default ELSE v

GetStr(v, default) == IF v = AbsentStr THEN default ELSE v

\* Python truthiness of a number: None and 0 are false
Truthy(n) == n # AbsentNum /\ n # 0

Abs(n) == IF n < 0 THEN -n ELSE n

RECURSIVE Gcd(_, _)
Gcd(a, b) == IF b = 0 THEN a ELSE Gcd(b, a % b)

\* One outcome of run_data['tests']
Test(name, title, status, priority, duration_ms, duration) ==
    [name |-> name, title |-> title, status |-> status, priority |-> priority,
     duration_ms |-> duration_ms, duration |-> duration]

\* stops after the first element
SumSeq_Mutant(ns) == IF ns = <<>> THEN 0 ELSE Head(ns)

\* sum(...) of Python over a sequence of integers
RECURSIVE SumSeq(_)
SumSeq(ns) == IF ns = <<>> THEN 0 ELSE Head(ns) + SumSeq(Tail(ns))

----------------------------------------------------------------------------
(* Numbers as the report prints them *)

\* truncates instead of rounding
RoundHalfEven_Mutant(num, den) == num \div den

\* round(x) of Python 3 for x = num / den: nearest integer, ties to even
RoundHalfEven(num, den) ==
    LET fl == num \div den
        twice == 2 * (num % den)
    IN  IF twice < den THEN fl
        ELSE IF twice > den THEN fl + 1
        ELSE IF fl % 2 = 0 THEN fl ELSE fl + 1

\* passed/total ratios (in lowest terms) whose double-precision product with
\* 100 misses the exact tie, and what round() returns for them
FloatTieResults == { <<23, 40, 57>>, <<109, 200, 55>> }

\* the percentage is rounded up
PassRate_Mutant(total_passed, total_tests) ==
    IF total_tests > 0
    THEN (100 * total_passed + total_tests - 1) \div total_tests
    ELSE 0

\* round((total_passed / total_tests) * 100) if total_tests > 0 else 0
PassRate(total_passed, total_tests) ==
    IF total_tests > 0
    THEN LET g == Gcd(total_passed, total_tests)
             hit == { e \in FloatTieResults :
                        /\ g > 0
                        /\ e[1] = total_passed \div g
                        /\ e[2] = total_tests \div g }
         IN  IF hit # {} THEN (CHOOSE e \in hit : TRUE)[3]
             ELSE RoundHalfEven(100 * total_passed, total_tests)
    ELSE 0

\* f"{ms / 1000:.2f}s": the number of hundredths of a second shown
FormatSeconds(ms) == RoundHalfEven(ms, 10)

----------------------------------------------------------------------------
(* Aggregator: fetch_current_run_data / fetch_previous_run_data *)

\* a missing status is counted under every status
CountStatus_Mutant(tests, status) ==
    SumSeq([i \in 1..Len(tests) |->
              IF GetStr(tests[i].status, status) = status THEN 1 ELSE 0])

\* sum(1 for t in tests if t.get('status') == status)
CountStatus(tests, status) ==
    SumSeq([i \in 1..Len(tests) |-> IF tests[i].status = status THEN 1 ELSE 0])

\* forgets the status test
CountFailedPriority_Mutant(tests, priority) ==
    SumSeq([i \in 1..Len(tests) |-> IF tests[i].priority = priority THEN 1 ELSE 0])

\* sum(1 for t in tests if t.get('status') == 'failed' and t.get('priority') == priority)
CountFailedPriority(tests, priority) ==
    SumSeq([i \in 1..Len(tests) |->
              IF tests[i].status = "failed" /\ tests[i].priority = priority THEN 1 ELSE 0])

\* parsed_module of fetch_current_run_data for one row
ParseModule(row) ==
    [module_name |-> row.module_name,
     test_cases_run |-> Len(row.tests),
     test_cases_passed |-> CountStatus(row.tests, "passed"),
     test_cases_failed |-> CountStatus(row.tests, "failed"),
     test_cases_skipped |-> CountStatus(row.tests, "skipped"),
     highest_priority_failed |-> CountFailedPriority(row.tests, "highest"),
     high_priority_failed |-> CountFailedPriority(row.tests, "high"),
     medium_priority_failed |-> CountFailedPriority(row.tests, "medium"),
     low_priority_failed |-> CountFailedPriority(row.tests, "low"),
     tests |-> row.tests]

\* parsed_prev_module of fetch_previous_run_data for one row
ParsePrevModule(row) ==
    [module_name |-> row.module_name,
     test_cases_run |-> Len(row.tests),
     test_cases_passed |-> CountStatus(row.tests, "passed"),
     test_cases_failed |-> CountStatus(row.tests, "failed"),
     test_cases_skipped |-> CountStatus(row.tests, "skipped"),
     tests |-> row.tests]

ParseModules(rows) == [i \in 1..Len(rows) |-> ParseModule(rows[i])]

ParsePrevModules(rows) == [i \in 1..Len(rows) |-> ParsePrevModule(rows[i])]

----------------------------------------------------------------------------
(* Python dict and Optional *)

\* a dict is a function on its keys; {} is the empty function
EmptyDict == [x \in {} |-> x]

\* d[k] = v
Put(d, k, v) == [x \in (DOMAIN d) \cup {k} |-> IF x = k THEN v ELSE d[x]]

\* an Optional is a sequence of at most one element: None is << >>
None == << >>

Some(v) == << v >>

\* d.get(k)
Lookup(d, k) == IF k \in DOMAIN d THEN Some(d[k]) ELSE None

----------------------------------------------------------------------------
(* Differ, per test: generate_test_list_html *)

\* test.get('name', test.get('title', 'Unknown Test'))
CurTestName(test) == GetStr(test.name, GetStr(test.title, "Unknown Test"))

\* test.get('name', test.get('title', ''))
PrevTestName(test) == GetStr(test.name, GetStr(test.title, ""))

\* test.get('duration_ms', test.get('duration', 0))
DurationOf(test) == GetNum(test.duration_ms, GetNum(test.duration, 0))

\* keeps the entry already stored under a name
RECURSIVE PutTests_Mutant(_, _)
PutTests_Mutant(d, tests) ==
    IF tests = <<>> THEN d
    ELSE IF PrevTestName(Head(tests)) \in DOMAIN d THEN PutTests_Mutant(d, Tail(tests))
    ELSE PutTests_Mutant(Put(d, PrevTestName(Head(tests)), Head(tests)), Tail(tests))

\* the loop filling prev_tests_map, in sequence order
RECURSIVE PutTests(_, _)
PutTests(d, tests) ==
    IF tests = <<>> THEN d
    ELSE PutTests(Put(d, PrevTestName(Head(tests)), Head(tests)), Tail(tests))

PrevTestsMap(prev_module) ==
    IF prev_module # None THEN PutTests(EmptyDict, prev_module[1].tests) ELSE EmptyDict

\* divides by the previous duration whatever its sign
TimeDiff_Mutant(duration, prev_duration) ==
    LET time_diff == duration - prev_duration
        percent_change == [num |-> 100 * time_diff, den |-> prev_duration]
    IN  [time_diff |-> time_diff,
         time_diff_str |-> FormatSeconds(Abs(time_diff)),
         percent_change |-> percent_change,
         divisor |-> Some(prev_duration),
         shown_percent |-> IF prev_duration <= 0 THEN 0
                           ELSE IF time_diff > 0
                           THEN RoundHalfEven(10 * percent_change.num, percent_change.den)
                           ELSE RoundHalfEven(10 * Abs(percent_change.num), percent_change.den),
         class |-> IF time_diff > 0 THEN "worse"
                   ELSE IF time_diff < 0 THEN "better" ELSE "same"]

\* the branch computing time_diff_html from two truthy durations; divisor is
\* the number the percentage was divided by, None when no division was made
TimeDiff(duration, prev_duration) ==
    LET time_diff == duration - prev_duration
        percent_change == IF prev_duration > 0
                          THEN [num |-> 100 * time_diff, den |-> prev_duration]
                          ELSE [num |-> 0, den |-> 1]
    IN  [time_diff |-> time_diff,
         divisor |-> IF prev_duration > 0 THEN Some(prev_duration) ELSE None,
         time_diff_str |-> FormatSeconds(Abs(time_diff)),
         percent_change |-> percent_change,
         shown_percent |-> IF time_diff > 0
                           THEN RoundHalfEven(10 * percent_change.num, percent_change.den)
                           ELSE RoundHalfEven(10 * Abs(percent_change.num), percent_change.den),
         class |-> IF time_diff > 0 THEN "worse"
                   ELSE IF time_diff < 0 THEN "better" ELSE "same"]

\* renders an unmatched test as unchanged
TestRow_Mutant(test, prev_tests_map) ==
    LET test_name == CurTestName(test)
        duration == DurationOf(test)
        prev_test == Lookup(prev_tests_map, test_name)
        prev_duration == IF prev_test # None THEN DurationOf(prev_test[1]) ELSE duration
    IN  [test_name |-> test_name,
         status |-> GetStr(test.status, "unknown"),
         priority |-> GetStr(test.priority, "medium"),
         current_time |-> IF Truthy(duration) THEN Some(FormatSeconds(duration)) ELSE None,
         prev_time |-> IF prev_test # None /\ Truthy(prev_duration)
                       THEN Some(FormatSeconds(prev_duration)) ELSE None,
         time_diff |-> IF Truthy(prev_duration) /\ Truthy(duration)
                       THEN Some(TimeDiff(duration, prev_duration)) ELSE None]

\* one <tr> of the test table
TestRow(test, prev_tests_map) ==
    LET test_name == CurTestName(test)
        duration == DurationOf(test)
        prev_test == Lookup(prev_tests_map, test_name)
        prev_duration == IF prev_test # None THEN DurationOf(prev_test[1]) ELSE 0
    IN  [test_name |-> test_name,
         status |-> GetStr(test.status, "unknown"),
         priority |-> GetStr(test.priority, "medium"),
         current_time |-> IF Truthy(duration) THEN Some(FormatSeconds(duration)) ELSE None,
         prev_time |-> IF prev_test # None /\ Truthy(prev_duration)
                       THEN Some(FormatSeconds(prev_duration)) ELSE None,
         time_diff |-> IF prev_test # None /\ Truthy(prev_duration) /\ Truthy(duration)
                       THEN Some(TimeDiff(duration, prev_duration)) ELSE None]

\* the rows of the table, in the order of module['tests']
TestList(module, prev_module) ==
    LET prev_tests_map == PrevTestsMap(prev_module)
    IN  [i \in 1..Len(module.tests) |-> TestRow(module.tests[i], prev_tests_map)]

----------------------------------------------------------------------------
(* Differ, per module, and renderer: create_html *)

\* a module without failures is shown as passed
StatusClass_Mutant(tests_run, tests_passed, tests_failed) ==
    IF tests_failed = 0 THEN "passed" ELSE "failed"

\* status_class of a module card
StatusClass(tests_run, tests_passed, tests_failed) ==
    IF tests_failed = 0 /\ tests_passed = tests_run THEN "passed"
    ELSE IF tests_failed > 0 THEN "failed"
    ELSE "partial"

PassedClass(passed_diff) ==
    IF passed_diff > 0 THEN "better" ELSE IF passed_diff < 0 THEN "worse" ELSE "same"

\* classifies failures with the sign rule of passes
FailedClass_Mutant(failed_diff) ==
    IF failed_diff > 0 THEN "better" ELSE IF failed_diff < 0 THEN "worse" ELSE "same"

FailedClass(failed_diff) ==
    IF failed_diff < 0 THEN "better" ELSE IF failed_diff > 0 THEN "worse" ELSE "same"

\* renders a block of unchanged counts when there is no previous module
Comparison_Mutant(module, prev_module) ==
    LET prev == IF prev_module # None THEN prev_module[1] ELSE module
    IN  Some([prev_passed |-> prev.test_cases_passed,
              prev_failed |-> prev.test_cases_failed,
              prev_skipped |-> prev.test_cases_skipped,
              passed_diff |-> module.test_cases_passed - prev.test_cases_passed,
              failed_diff |-> module.test_cases_failed - prev.test_cases_failed,
              skipped_diff |-> module.test_cases_skipped - prev.test_cases_skipped,
              passed_class |-> PassedClass(module.test_cases_passed - prev.test_cases_passed),
              failed_class |-> FailedClass(module.test_cases_failed - prev.test_cases_failed),
              skipped_class |-> "same"])

\* comparison_html of one module card
Comparison(module, prev_module) ==
    IF prev_module # None
    THEN LET prev_passed == prev_module[1].test_cases_passed
             prev_failed == prev_module[1].test_cases_failed
             prev_skipped == prev_module[1].test_cases_skipped
             passed_diff == module.test_cases_passed - prev_passed
             failed_diff == module.test_cases_failed - prev_failed
             skipped_diff == module.test_cases_skipped - prev_skipped
         IN  Some([prev_passed |-> prev_passed,
                   prev_failed |-> prev_failed,
                   prev_skipped |-> prev_skipped,
                   passed_diff |-> passed_diff,
                   failed_diff |-> failed_diff,
                   skipped_diff |-> skipped_diff,
                   passed_class |-> PassedClass(passed_diff),
                   failed_class |-> FailedClass(failed_diff),
                   skipped_class |-> "same"])
    ELSE None

\* one module card
ModuleCard(module, prev_map) ==
    LET prev_module == Lookup(prev_map, module.module_name)
    IN  [module_name |-> module.module_name,
         tests_run |-> module.test_cases_run,
         tests_passed |-> module.test_cases_passed,
         tests_failed |-> module.test_cases_failed,
         tests_skipped |-> module.test_cases_skipped,
         status_class |-> StatusClass(module.test_cases_run, module.test_cases_passed,
                                      module.test_cases_failed),
         comparison |-> Comparison(module, prev_module),
         test_list |-> TestList(module, prev_module)]

\* the loop filling prev_map in generate_html_report
RECURSIVE PutModules(_, _)
PutModules(d, modules) ==
    IF modules = <<>> THEN d
    ELSE PutModules(Put(d, Head(modules).module_name, Head(modules)), Tail(modules))

PrevMap(prev_data) == PutModules(EmptyDict, prev_data)

RunOf(m) == GetNum(m.test_cases_run, 0)

PassedOf(m) == GetNum(m.test_cases_passed, 0)

FailedOf(m) == GetNum(m.test_cases_failed, 0)

SkippedOf(m) == GetNum(m.test_cases_skipped, 0)

\* the 'Comparing with' part of the header: its kind, and the version and
\* run identifier it prints
ComparisonInfo(prev_map, previous_version, previous_run_id) ==
    IF previous_version # AbsentStr /\ previous_version # ""
       /\ previous_run_id # AbsentStr /\ previous_run_id # ""
    THEN [text |-> "Comparing with: version (Run: id)",
          previous_version |-> previous_version, previous_run_id |-> previous_run_id]
    ELSE IF DOMAIN prev_map # {}
    THEN [text |-> "Comparing with: Previous Run",
          previous_version |-> AbsentStr, previous_run_id |-> AbsentStr]
    ELSE [text |-> "", previous_version |-> AbsentStr, previous_run_id |-> AbsentStr]

\* repo_version = current_version if current_version != 'N/A'
\*                else os.getenv('REPO_VERSION', 'N/A')
RepoVersion(current_version, env_version) ==
    IF current_version # "N/A" THEN current_version
    ELSE IF env_version # AbsentStr THEN env_version
    ELSE "N/A"

CreateHtml(modules, prev_map, current_version, previous_version, previous_run_id, env_version) ==
    LET total_tests == SumSeq([i \in 1..Len(modules) |-> RunOf(modules[i])])
        total_passed == SumSeq([i \in 1..Len(modules) |-> PassedOf(modules[i])])
    IN  [repo_version |-> RepoVersion(current_version, env_version),
         module_count |-> Len(modules),
         total_tests |-> total_tests,
         total_passed |-> total_passed,
         total_failed |-> SumSeq([i \in 1..Len(modules) |-> FailedOf(modules[i])]),
         total_skipped |-> SumSeq([i \in 1..Len(modules) |-> SkippedOf(modules[i])]),
         pass_rate |-> PassRate(total_passed, total_tests),
         comparison_info |-> ComparisonInfo(prev_map, previous_version, previous_run_id),
         cards |-> [i \in 1..Len(modules) |-> ModuleCard(modules[i], prev_map)]]

----------------------------------------------------------------------------
(* Run-level reducer of the PDF script: calculate_summary *)

CalculateSummary(rows) ==
    LET total_tests == SumSeq([i \in 1..Len(rows) |-> RunOf(rows[i])])
        total_passed == SumSeq([i \in 1..Len(rows) |-> PassedOf(rows[i])])
    IN  [total_modules |-> Len(rows),
         total_tests |-> total_tests,
         total_passed |-> total_passed,
         total_failed |-> SumSeq([i \in 1..Len(rows) |-> FailedOf(rows[i])]),
         total_skipped |-> SumSeq([i \in 1..Len(rows) |-> SkippedOf(rows[i])]),
         pass_rate |-> PassRate(total_passed, total_tests)]

----------------------------------------------------------------------------
(* The collaborators: query service, file system, chat service *)

\* one call made to a collaborator, with the argument that matters and
\* whether it succeeded
Call(op, arg, ok) == [op |-> op, arg |-> arg, ok |-> ok]

\* What one execute_query call can do: log in first when no token is held
\* (the login may fail), then send the query (which may fail: unreachable,
\* non-OK response, or a payload that does not parse).
QueryOutcomes(token) ==
    IF token = NoneVal
    THEN { [ok |-> FALSE, token |-> NoneVal],
           [ok |-> FALSE, token |-> "token"],
           [ok |-> TRUE, token |-> "token"] }
    ELSE { [ok |-> FALSE, token |-> token], [ok |-> TRUE, token |-> token] }

\* every query logs in first, whether a token is held or not
QueryCalls_Mutant(token, o, op, arg) ==
    << Call("login", "", o.token # NoneVal) >>
    \o (IF o.token # NoneVal THEN << Call(op, arg, o.ok) >> ELSE <<>>)

\* the calls one execute_query makes for outcome o: a login when no token was
\* held, and the query itself unless that login failed
QueryCalls(token, o, op, arg) ==
    (IF token = NoneVal THEN << Call("login", "", o.token # NoneVal) >> ELSE <<>>)
    \o (IF o.token # NoneVal THEN << Call(op, arg, o.ok) >> ELSE <<>>)

\* WHERE cron_run_id = '...' dropped: every run sees the current run's rows
ModulesOfRun_Mutant(id) == db_modules

\* rows of xyne_test_module WHERE cron_run_id = id
ModulesOfRun(id) ==
    IF id = "run-1" THEN db_modules
    ELSE IF id = "run-0" THEN db_prev_modules
    ELSE <<>>

\* row of xyne_test_runs WHERE cron_run_id = id
RunRowOf(id) == IF id = "run-1" THEN db_run ELSE None

\* rows of test_run_summary WHERE cron_run_id = id
SummaryOfRun(id) == IF id = "run-1" THEN db_summary ELSE <<>>

\* reports/test-execution-report-{cron_run_id}-{timestamp}.{ext}; the clock
\* reading is not part of the model
Path(id, ext) == [dir |-> "reports", cron_run_id |-> id, ext |-> ext]

\* what the steps from os.makedirs to the end of the write can do
WriteOutcomes == {"makedirs_failed", "open_failed", "write_failed", "written"}

\* the file system after a write attempt of the artifact at path
FsAfter(outcome, path) ==
    [dir |-> IF outcome = "makedirs_failed" THEN fs.dir ELSE TRUE,
     file |-> IF outcome = "written" THEN Some([path |-> path, complete |-> TRUE])
              ELSE IF outcome = "write_failed"
              THEN Some([path |-> path, complete |-> FALSE])
              ELSE fs.file]

\* what conversations.history can do
HistoryOutcomes == {"ok", "api_error", "http_error", "exception"}

\* 'limit': 20
HistoryLimit == 20

\* a channel message: the run identifier its text names, whether its text has
\* 'PDF', and its ts
Message(run, pdf, ts) == [run |-> run, pdf |-> pdf, ts |-> ts]

\* the characters of the run identifiers in use
Chars(id) ==
    CASE id = "run-1" -> << "r", "u", "n", "-", "1" >>
      [] id = "run-2" -> << "r", "u", "n", "-", "2" >>
      [] id = "run-9" -> << "r", "u", "n", "-", "9" >>
      [] id = "run-10" -> << "r", "u", "n", "-", "1", "0" >>
      [] OTHER -> << id >>

\* `cron_run_id in text`, for a text that names the run identifier run
InText(id, run) ==
    LET a == Chars(id)
        b == Chars(run)
    IN  \E k \in 0..(Len(b) - Len(a)) : SubSeq(b, k + 1, k + Len(a)) = a

\* result.get('messages', []) of a history call with limit 20
RecentMessages(ch) ==
    SubSeq(ch, 1, IF Len(ch) < HistoryLimit THEN Len(ch) ELSE HistoryLimit)

\* the loop of find_pdf_message_ts: msg.get('ts') of the first message whose
\* text has the run identifier and 'PDF'
FirstPdfMessageTs(messages, id) ==
    LET hits == { i \in 1..Len(messages) :
                    InText(id, messages[i].run) /\ messages[i].pdf }
    IN  IF hits = {} THEN None
        ELSE LET first == CHOOSE i \in hits : \A j \in hits : i <= j
             IN  IF messages[first].ts = AbsentStr THEN None
                 ELSE Some(messages[first].ts)

\* what files.upload can do; ok_no_permalink is an accepted upload whose
\* response carries no file permalink
UploadOutcomes == {"ok", "ok_no_permalink", "api_error", "http_error", "exception"}

\* response.ok and result.get('ok')
Accepted(u) == u \in {"ok", "ok_no_permalink"}

\* what upload_html_to_slack_thread returns
UploadHtmlResult(enabled, u) ==
    IF ~enabled THEN "False"
    ELSE IF u = "ok" THEN "permalink"
    ELSE IF u = "ok_no_permalink" THEN NoneVal
    ELSE "False"

\* what send_pdf_notification returns: the result of upload_file_to_slack
SendPdfResult(enabled, u) == IF enabled /\ Accepted(u) THEN "True" ELSE "False"

\* `if slack_url:` / `if slack_success:`
ReportsSuccess(result) == result \in {"permalink", "True"}

\* `if thread_ts:`
ThreadOf(ts) == IF ts # None /\ ts[1] # "" THEN ts[1] ELSE "channel"

\* environment = records[0].get('runenv', 'Unknown')
EnvironmentOf(rows) ==
    IF rows[1].runenv = AbsentStr THEN "Unknown" ELSE rows[1].runenv

----------------------------------------------------------------------------
(* Entry point: main of both scripts *)

\* the environment variable is preferred to the argument
PickRunId_Mutant(arg, env) == IF env # AbsentStr THEN env ELSE arg

\* sys.argv[1] if given, else os.getenv('CRON_RUN_ID')
PickRunId(arg, env) == IF arg # AbsentStr THEN arg ELSE env

\* `not cron_run_id`
MissingRunId(id) == id = AbsentStr \/ id = ""

\* a failed generation gets a code of its own
MainExit_Mutant(path) == IF path # None THEN 0 ELSE 2

\* sys.exit(0) after a generated artifact, sys.exit(1) otherwise
MainExit(path) == IF path # None THEN 0 ELSE 1

\* a failed delivery fails the process
DeliveryExit_Mutant(path, delivered) == IF delivered THEN MainExit(path) ELSE 1

\* the code main exits with once delivery has been tried
DeliveryExit(path, delivered) == MainExit(path)

\* the line names a path without the run identifier
OutputPathLine_Mutant(tag, path) == [tag |-> tag, path |-> Path("", path.ext)]

\* print(f'HTML_OUTPUT_PATH:{output_path}') / print(f'PDF_OUTPUT_PATH:{output_path}')
OutputPathLine(tag, path) == [tag |-> tag, path |-> path]

Main ==
    /\ pc = "main"
    /\ cron_run_id' = PickRunId(argv1, env_run_id)
    /\ IF MissingRunId(PickRunId(argv1, env_run_id))
       THEN /\ pc' = "exit"
            /\ exit_code' = 1
       ELSE /\ pc' = IF script = "html" THEN "fetch_current" ELSE "fetch_report"
            /\ UNCHANGED exit_code
    /\ UNCHANGED <<script, argv1, env_run_id, env_repo_version, slack_enabled,
                   channel, main_records, delivery, db_modules, db_run,
                   db_prev_modules, db_summary, auth_token, current_data, version_info,
                   previous_data, html, records, summary, output_path, pdf_message_ts,
                   calls, fs, stdout>>

----------------------------------------------------------------------------
(* HTML script: generate_html_report and the delivery steps of main *)

\* an empty result does not stop the generation
NoData_Mutant(data) == FALSE

\* `if not current_data` / `if not records`
NoData(data) == data = <<>>

\* only a missing pointer counts, an empty one is queried
HasPointer_Mutant(prev_run_id) == prev_run_id # AbsentStr

\* the negation of `if not prev_run_id`
HasPointer(prev_run_id) == prev_run_id # AbsentStr /\ prev_run_id # ""

\* the run before the current one, whatever the pointer says
PrevRunQueryId_Mutant(first_item) == "run-0"

\* the identifier put into the WHERE clause of prev_query
PrevRunQueryId(first_item) == first_item.previous_run_id

\* current_data = self.fetch_current_run_data(cron_run_id); a failed query is
\* caught there and gives [], and main exits with 1 on the None returned for
\* an empty current_data
FetchCurrentRunData ==
    /\ script = "html"
    /\ pc = "fetch_current"
    /\ \E o \in QueryOutcomes(auth_token) :
          LET data == IF o.ok THEN ParseModules(ModulesOfRun(cron_run_id)) ELSE <<>>
          IN  /\ auth_token' = o.token
              /\ calls' = calls \o QueryCalls(auth_token, o, "query_current", cron_run_id)
              /\ current_data' = data
              /\ IF NoData(data)
                 THEN /\ pc' = "exit"
                      /\ exit_code' = MainExit(None)
                 ELSE /\ pc' = "version_query"
                      /\ UNCHANGED exit_code
    /\ UNCHANGED <<script, argv1, env_run_id, env_repo_version, slack_enabled,
                   channel, main_records, delivery, db_modules, db_run,
                   db_prev_modules, db_summary, cron_run_id, version_info,
                   previous_data, html, records, summary, output_path, pdf_message_ts,
                   fs, stdout>>

\* the version query of generate_html_report; its failure is caught by the
\* except of generate_html_report, which returns None
VersionQuery ==
    /\ script = "html"
    /\ pc = "version_query"
    /\ \E o \in QueryOutcomes(auth_token) :
          /\ auth_token' = o.token
          /\ calls' = calls \o QueryCalls(auth_token, o, "query_version", cron_run_id)
          /\ IF o.ok
             THEN /\ version_info' =
                        IF RunRowOf(cron_run_id) # None
                        THEN [current_version |-> RunRowOf(cron_run_id)[1].repo_version,
                              previous_version |-> RunRowOf(cron_run_id)[1].previous_version,
                              previous_run_id |-> RunRowOf(cron_run_id)[1].previous_run_id]
                        ELSE [current_version |-> "N/A",
                              previous_version |-> AbsentStr,
                              previous_run_id |-> AbsentStr]
                  /\ pc' = "fetch_previous"
                  /\ UNCHANGED exit_code
             ELSE /\ pc' = "exit"
                  /\ exit_code' = MainExit(None)
                  /\ UNCHANGED version_info
    /\ UNCHANGED <<script, argv1, env_run_id, env_repo_version, slack_enabled,
                   channel, main_records, delivery, db_modules, db_run,
                   db_prev_modules, db_summary, cron_run_id, current_data,
                   previous_data, html, records, summary, output_path, pdf_message_ts,
                   fs, stdout>>

\* previous_data = self.fetch_previous_run_data(cron_run_id): the pointer
\* query, then the query of the previous modules; every failure is caught
\* inside and gives None, as does an empty result
FetchPreviousRunData ==
    /\ script = "html"
    /\ pc = "fetch_previous"
    /\ \E o1 \in QueryOutcomes(auth_token) :
          LET row == RunRowOf(cron_run_id)
              c1 == QueryCalls(auth_token, o1, "query_pointer", cron_run_id)
          IN  IF o1.ok /\ row # None /\ HasPointer(row[1].previous_run_id)
              THEN \E o2 \in QueryOutcomes(o1.token) :
                      /\ auth_token' = o2.token
                      /\ calls' = calls \o c1
                                  \o QueryCalls(o1.token, o2, "query_prev_modules",
                                                PrevRunQueryId(row[1]))
                      /\ previous_data' =
                            IF o2.ok
                            THEN ParsePrevModules(ModulesOfRun(PrevRunQueryId(row[1])))
                            ELSE <<>>
              ELSE /\ auth_token' = o1.token
                   /\ calls' = calls \o c1
                   /\ previous_data' = <<>>
    /\ pc' = "create_html"
    /\ UNCHANGED <<script, argv1, env_run_id, env_repo_version, slack_enabled,
                   channel, main_records, delivery, db_modules, db_run,
                   db_prev_modules, db_summary, cron_run_id, current_data, version_info,
                   html, records, summary, output_path, pdf_message_ts, fs, stdout,
                   exit_code>>

\* prev_map, the output path, os.makedirs, create_html and the write of the
\* artifact; a failure of the file system is caught and gives None
WriteHtml ==
    /\ script = "html"
    /\ pc = "create_html"
    /\ \E w \in WriteOutcomes :
          /\ calls' = calls \o << Call("makedirs", "reports", w # "makedirs_failed") >>
                      \o (IF w = "makedirs_failed" THEN <<>>
                          ELSE << Call("write", "html", w = "written") >>)
          /\ fs' = FsAfter(w, Path(cron_run_id, "html"))
          /\ html' = IF w = "makedirs_failed" THEN html
                     ELSE Some(CreateHtml(current_data, PrevMap(previous_data),
                                          version_info.current_version,
                                          version_info.previous_version,
                                          version_info.previous_run_id,
                                          env_repo_version))
          /\ IF w = "written"
             THEN /\ output_path' = Some(Path(cron_run_id, "html"))
                  /\ pc' = "find_pdf"
                  /\ UNCHANGED exit_code
             ELSE /\ pc' = "exit"
                  /\ exit_code' = MainExit(None)
                  /\ UNCHANGED output_path
    /\ UNCHANGED <<script, argv1, env_run_id, env_repo_version, slack_enabled,
                   channel, main_records, delivery, db_modules, db_run,
                   db_prev_modules, db_summary, auth_token, cron_run_id, current_data,
                   version_info, previous_data, records, summary, pdf_message_ts, stdout>>

\* pdf_message_ts = slack_notifier.find_pdf_message_ts(cron_run_id)
FindPdfMessage ==
    /\ script = "html"
    /\ pc = "find_pdf"
    /\ IF slack_enabled
       THEN \E h \in HistoryOutcomes :
               /\ calls' = calls \o << Call("slack_history", cron_run_id, h = "ok") >>
               /\ pdf_message_ts' =
                     IF h = "ok"
                     THEN FirstPdfMessageTs(RecentMessages(channel), cron_run_id)
                     ELSE None
       ELSE UNCHANGED <<calls, pdf_message_ts>>
    /\ pc' = "upload"
    /\ UNCHANGED <<script, argv1, env_run_id, env_repo_version, slack_enabled,
                   channel, main_records, delivery, db_modules, db_run,
                   db_prev_modules, db_summary, auth_token, cron_run_id, current_data,
                   version_info, previous_data, html, records, summary, output_path,
                   fs, stdout, exit_code>>

\* slack_notifier.upload_html_to_slack_thread(...), then the output line and
\* sys.exit(0)
UploadHtml ==
    /\ script = "html"
    /\ pc = "upload"
    /\ \E u \in UploadOutcomes :
          LET slack_url == UploadHtmlResult(slack_enabled, u)
          IN  /\ calls' = IF slack_enabled
                          THEN calls \o << Call("slack_upload", ThreadOf(pdf_message_ts),
                                                Accepted(u)) >>
                          ELSE calls
              /\ delivery' = Some([accepted |-> slack_enabled /\ Accepted(u),
                                   result |-> slack_url,
                                   reported |-> ReportsSuccess(slack_url),
                                   caption |-> None])
              /\ exit_code' = DeliveryExit(output_path, ReportsSuccess(slack_url))
    /\ stdout' = Append(stdout, OutputPathLine("HTML_OUTPUT_PATH", output_path[1]))
    /\ pc' = "exit"
    /\ UNCHANGED <<script, argv1, env_run_id, env_repo_version, slack_enabled,
                   channel, main_records, db_modules, db_run,
                   db_prev_modules, db_summary, auth_token, cron_run_id, current_data,
                   version_info, previous_data, html, records, summary, output_path,
                   pdf_message_ts, fs>>

----------------------------------------------------------------------------
(* PDF script: generate_pdf_report and the delivery steps of main *)

\* records = self.fetch_report_data(cron_run_id); a failed login or query is
\* caught there and gives None, as does a result without rows
FetchReportData ==
    /\ script = "pdf"
    /\ pc = "fetch_report"
    /\ \E o \in QueryOutcomes(auth_token) :
          LET rows == IF o.ok THEN SummaryOfRun(cron_run_id) ELSE <<>>
          IN  /\ auth_token' = o.token
              /\ calls' = calls \o QueryCalls(auth_token, o, "query_summary", cron_run_id)
              /\ records' = rows
              /\ IF NoData(rows)
                 THEN /\ pc' = "exit"
                      /\ exit_code' = MainExit(None)
                 ELSE /\ pc' = "generate_pdf"
                      /\ UNCHANGED exit_code
    /\ UNCHANGED <<script, argv1, env_run_id, env_repo_version, slack_enabled,
                   channel, main_records, delivery, db_modules, db_run,
                   db_prev_modules, db_summary, cron_run_id, current_data, version_info,
                   previous_data, html, summary, output_path, pdf_message_ts, fs,
                   stdout>>

\* summary = self.calculate_summary(records), the output path, os.makedirs and
\* create_pdf; a failure of the file system is caught and gives None
WritePdf ==
    /\ script = "pdf"
    /\ pc = "generate_pdf"
    /\ summary' = Some(CalculateSummary(records))
    /\ \E w \in WriteOutcomes \ {"open_failed"} :
          /\ calls' = calls \o << Call("makedirs", "reports", w # "makedirs_failed") >>
                      \o (IF w = "makedirs_failed" THEN <<>>
                          ELSE << Call("write", "pdf", w = "written") >>)
          /\ fs' = FsAfter(w, Path(cron_run_id, "pdf"))
          /\ IF w = "written"
             THEN /\ output_path' = Some(Path(cron_run_id, "pdf"))
                  /\ pc' = "refetch"
                  /\ UNCHANGED exit_code
             ELSE /\ pc' = "exit"
                  /\ exit_code' = MainExit(None)
                  /\ UNCHANGED output_path
    /\ UNCHANGED <<script, argv1, env_run_id, env_repo_version, slack_enabled,
                   channel, main_records, delivery, db_modules, db_run,
                   db_prev_modules, db_summary, auth_token, cron_run_id, current_data,
                   version_info, previous_data, html, records, pdf_message_ts, stdout>>

\* main fetches the data again for the chat message; without records the
\* delivery is skipped, the output line printed and the process exits with 0
RefetchReportData ==
    /\ script = "pdf"
    /\ pc = "refetch"
    /\ \E o \in QueryOutcomes(auth_token) :
          LET rows == IF o.ok THEN SummaryOfRun(cron_run_id) ELSE <<>>
          IN  /\ auth_token' = o.token
              /\ calls' = calls \o QueryCalls(auth_token, o, "query_summary", cron_run_id)
              /\ main_records' = rows
              /\ IF NoData(rows)
                 THEN /\ stdout' = Append(stdout,
                                          OutputPathLine("PDF_OUTPUT_PATH", output_path[1]))
                      /\ exit_code' = DeliveryExit(output_path, FALSE)
                      /\ pc' = "exit"
                 ELSE /\ pc' = "send_pdf"
                      /\ UNCHANGED <<stdout, exit_code>>
    /\ UNCHANGED <<script, argv1, env_run_id, env_repo_version, slack_enabled,
                   channel, delivery, db_modules, db_run,
                   db_prev_modules, db_summary, cron_run_id, current_data, version_info,
                   previous_data, html, records, summary, output_path, pdf_message_ts,
                   fs>>

\* slack_notifier.send_pdf_notification(...), then the output line and
\* sys.exit(0)
SendPdf ==
    /\ script = "pdf"
    /\ pc = "send_pdf"
    /\ \E u \in UploadOutcomes :
          LET slack_success == SendPdfResult(slack_enabled, u)
          IN  /\ calls' = IF slack_enabled
                          THEN calls \o << Call("slack_upload", "channel", Accepted(u)) >>
                          ELSE calls
              /\ delivery' =
                    Some([accepted |-> slack_enabled /\ Accepted(u),
                          result |-> slack_success,
                          reported |-> ReportsSuccess(slack_success),
                          caption |-> IF slack_enabled
                                      THEN Some([summary |-> CalculateSummary(main_records),
                                                 environment |-> EnvironmentOf(main_records)])
                                      ELSE None])
              /\ exit_code' = DeliveryExit(output_path, ReportsSuccess(slack_success))
    /\ stdout' = Append(stdout, OutputPathLine("PDF_OUTPUT_PATH", output_path[1]))
    /\ pc' = "exit"
    /\ UNCHANGED <<script, argv1, env_run_id, env_repo_version, slack_enabled,
                   channel, main_records, db_modules, db_run,
                   db_prev_modules, db_summary, auth_token, cron_run_id, current_data,
                   version_info, previous_data, html, records, summary, output_path,
                   pdf_message_ts, fs>>

----------------------------------------------------------------------------
(* Inputs *)

SeqsUpTo(S, n) == UNION { [1..k -> S] : k \in 0..n }

RunRow(repo_version, previous_version, previous_run_id) ==
    [repo_version |-> repo_version, previous_version |-> previous_version,
     previous_run_id |-> previous_run_id]

ModuleRow(module_name, tests) == [module_name |-> module_name, tests |-> tests]

\* outcomes that differ in status and priority
AggOutcomes ==
    { Test("t", AbsentStr, "failed", p, 1000, AbsentNum) :
        p \in {"highest", "high", "medium", "low", "urgent", AbsentStr} }
    \cup { Test("t", AbsentStr, "passed", "high", 1000, AbsentNum),
           Test("t", AbsentStr, "passed", AbsentStr, 1000, AbsentNum),
           Test("t", AbsentStr, "skipped", "medium", 1000, AbsentNum),
           Test("t", AbsentStr, "error", "low", 1000, AbsentNum),
           Test("t", AbsentStr, AbsentStr, "medium", 1000, AbsentNum) }

\* outcomes that differ in name and duration
DiffOutcomes ==
    { Test("a", AbsentStr, "passed", "medium", d, AbsentNum) :
        d \in {0, 800, 1000, 1200, AbsentNum, -500} }
    \cup { Test("a", AbsentStr, "passed", "medium", AbsentNum, 1000),
           Test("b", AbsentStr, "passed", "medium", 1000, AbsentNum),
           Test(AbsentStr, "a", "passed", "medium", 1200, AbsentNum),
           Test(AbsentStr, AbsentStr, "passed", "medium", 1000, AbsentNum) }

\* outcomes that differ in status only
CmpOutcomes ==
    { Test("t", AbsentStr, s, "medium", 1000, AbsentNum) :
        s \in {"passed", "failed", "skipped"} }

\* module lists of one run as the query returns them: ORDER BY module_name
CmpModuleLists ==
    LET T == SeqsUpTo(CmpOutcomes, MaxCmpTests)
    IN  { <<>> }
        \cup { << ModuleRow(n, t) >> : n \in {"login", "payments"}, t \in T }
        \cup { << ModuleRow("login", t1), ModuleRow("payments", t2) >> : t1 \in T, t2 \in T }

\* a row of test_run_summary; f and s are taken as given by the table
SummaryRow(module_name, run, passed, failed, skipped) ==
    [module_name |-> module_name, runenv |-> "staging", test_cases_run |-> run,
     test_cases_passed |-> passed, test_cases_failed |-> failed,
     test_cases_skipped |-> skipped]

SummaryLists ==
    { << SummaryRow("login", c[2], c[1], c[2] - c[1], 0) >> :
        c \in { x \in (0..MaxCount) \X (0..MaxCount) : x[1] <= x[2] } }
    \cup { << SummaryRow("login", 10, 8, 2, 0), SummaryRow("payments", 5, 5, 0, 0) >>,
           << SummaryRow("login", 10, 8, 2, 0), SummaryRow("payments", 5, 5, 0, 0),
              SummaryRow("search", 3, 1, 1, 1) >>,
           << SummaryRow("login", 4, 2, 1, 1),
              SummaryRow("payments", AbsentNum, AbsentNum, AbsentNum, AbsentNum) >>,
           << SummaryRow("login", AbsentNum, 3, AbsentNum, 1),
              SummaryRow("payments", 6, AbsentNum, 2, AbsentNum) >> }
    \cup { << SummaryRow("login", ManyTests, ManyTests - k, k, 0) >> : k \in 0..2 }
    \cup { << SummaryRow("login", ManyTests, ManyTests - 1, 0, 1),
              SummaryRow("payments", ManyTests, ManyTests - 2, 1, 1) >> }

\* what the rows of the run can have become by the time they are read again
ChangedSummaryLists ==
    { << SummaryRow("login", 3, 3, 0, 0) >>,
      << [SummaryRow("login", 2, 1, 1, 0) EXCEPT !.runenv = "production"] >>,
      << [SummaryRow("login", 2, 1, 1, 0) EXCEPT !.runenv = AbsentStr] >> }

\* values of REPO_VERSION in the environment
RepoVersionEnvs == {AbsentStr, "v9"}

\* channels as conversations.history lists them, most recent first
ChannelLists ==
    { <<>>,
      << Message("run-1", TRUE, "ts-1") >>,
      << Message("run-1", FALSE, "ts-h"), Message("run-1", TRUE, "ts-1") >>,
      << Message("run-10", TRUE, "ts-10"), Message("run-1", TRUE, "ts-1") >>,
      << Message("run-2", TRUE, "ts-2") >>,
      [i \in 1..(HistoryLimit + 1) |->
          IF i <= HistoryLimit THEN Message("run-2", FALSE, "ts-old")
          ELSE Message("run-1", TRUE, "ts-1")] }

\* one module with one test, for runs of the whole script
MainModuleLists ==
    { <<>>, << ModuleRow("login", << Test("t", AbsentStr, "passed", "medium", 1000, AbsentNum) >>) >> }

MainPrevModuleLists ==
    { <<>>, << ModuleRow("login", << Test("t", AbsentStr, "failed", "medium", 1200, AbsentNum) >>) >> }

MainRunRows ==
    { None }
    \cup { Some(RunRow("v2", pv, ptr)) :
             pv \in {AbsentStr, "v1"}, ptr \in {AbsentStr, "", "run-0", "run-8"} }

\* what the generator and main hold before main runs
InitLocals ==
    /\ auth_token = NoneVal
    /\ cron_run_id = NoneVal
    /\ current_data = <<>>
    /\ version_info = [current_version |-> "N/A", previous_version |-> AbsentStr,
                       previous_run_id |-> AbsentStr]
    /\ previous_data = <<>>
    /\ html = None
    /\ records = <<>>
    /\ summary = None
    /\ output_path = None
    /\ pdf_message_ts = None
    /\ main_records = <<>>
    /\ delivery = None
    /\ calls = <<>>
    /\ fs = [dir |-> FALSE, file |-> None]
    /\ stdout = <<>>
    /\ exit_code = AbsentNum
    /\ pc = "main"

\* the run identifier given as argument, chat delivery not configured
InitArgs ==
    /\ argv1 = "run-1"
    /\ env_run_id = AbsentStr
    /\ env_repo_version = AbsentStr
    /\ slack_enabled = FALSE
    /\ channel = <<>>

InitHtml ==
    /\ script = "html"
    /\ db_summary = <<>>
    /\ InitLocals

\* module comparison inputs
InitCmp ==
    /\ InitHtml
    /\ InitArgs
    /\ \/ /\ db_modules \in CmpModuleLists
          /\ db_run \in { Some(RunRow("v2", "v1", "run-0")) }
          /\ db_prev_modules \in CmpModuleLists
       \/ /\ db_modules \in CmpModuleLists
          /\ db_run \in { None, Some(RunRow("v2", AbsentStr, AbsentStr)) }
          /\ db_prev_modules = <<>>

\* aggregation inputs
InitAgg ==
    /\ InitHtml
    /\ InitArgs
    /\ db_run = Some(RunRow("v2", "v1", "run-0"))
    /\ \E ts \in SeqsUpTo(AggOutcomes, MaxAggTests) :
          /\ db_modules = << ModuleRow("login", ts) >>
          /\ db_prev_modules = << ModuleRow("login", ts) >>

\* test duration inputs
InitDiff ==
    /\ InitHtml
    /\ InitArgs
    /\ db_run = Some(RunRow("v2", "v1", "run-0"))
    /\ \E cur \in SeqsUpTo(DiffOutcomes, MaxCurTests) :
          db_modules = << ModuleRow("login", cur) >>
    /\ \E prev \in SeqsUpTo(DiffOutcomes, MaxPrevTests), n \in {"login", "payments"} :
          db_prev_modules = << ModuleRow(n, prev) >>

\* summary table inputs
InitPdf ==
    /\ script = "pdf"
    /\ InitArgs
    /\ db_modules = <<>>
    /\ db_run = None
    /\ db_prev_modules = <<>>
    /\ db_summary \in SummaryLists \cup { <<>> }
    /\ InitLocals

\* invocations of either script: argument, environment, chat configuration
\* and the tables all vary
InitMain ==
    /\ InitLocals
    /\ argv1 \in {AbsentStr, "", "run-1", "run-9"}
    /\ env_run_id \in {AbsentStr, "", "run-1", "run-2"}
    /\ slack_enabled \in BOOLEAN
    /\ \/ /\ script = "html"
          /\ env_repo_version \in RepoVersionEnvs
          /\ channel \in IF slack_enabled THEN ChannelLists ELSE { <<>> }
          /\ db_modules \in MainModuleLists
          /\ db_run \in MainRunRows
          /\ db_prev_modules \in MainPrevModuleLists
          /\ db_summary = <<>>
       \/ /\ script = "pdf"
          /\ env_repo_version = AbsentStr
          /\ channel = <<>>
          /\ db_modules = <<>>
          /\ db_run = None
          /\ db_prev_modules = <<>>
          /\ db_summary \in { <<>>, << SummaryRow("login", 2, 1, 1, 0) >> }

\* the rows of the run in test_run_summary change between the fetch of
\* generate_pdf_report and the fetch of main
SummaryTableChanges ==
    /\ script = "pdf"
    /\ pc = "refetch"
    /\ db_summary' \in ChangedSummaryLists \ {db_summary}
    /\ UNCHANGED <<script, pc, argv1, env_run_id, env_repo_version, slack_enabled,
                   channel, main_records, delivery, db_modules, db_run,
                   db_prev_modules, auth_token, cron_run_id, current_data,
                   version_info, previous_data, html, records, summary, output_path,
                   pdf_message_ts, calls, fs, stdout, exit_code>>

Init == InitCmp \/ InitPdf

NextHtml ==
    \/ Main
    \/ FetchCurrentRunData
    \/ VersionQuery
    \/ FetchPreviousRunData
    \/ WriteHtml
    \/ FindPdfMessage
    \/ UploadHtml

NextPdf ==
    \/ FetchReportData
    \/ WritePdf
    \/ SummaryTableChanges
    \/ RefetchReportData
    \/ SendPdf

Next == NextHtml \/ NextPdf

Spec == Init /\ [][Next]_vars

SpecAgg == InitAgg /\ [][NextHtml]_vars

SpecDiff == InitDiff /\ [][NextHtml]_vars

SpecMain == InitMain /\ [][Next]_vars

----------------------------------------------------------------------------
(* Properties *)

Recognized == {"passed", "failed", "skipped"}

Priorities == {"highest", "high", "medium", "low"}

HasStatus(tests, s) == { j \in 1..Len(tests) : tests[j].status = s }

UnknownCount(tests) == Cardinality({ j \in 1..Len(tests) : tests[j].status \notin Recognized })

FailedWith(tests, p) ==
    { j \in 1..Len(tests) : tests[j].status = "failed" /\ tests[j].priority = p }

CountsPartition(m) ==
    LET sum == m.test_cases_passed + m.test_cases_failed + m.test_cases_skipped
    IN  /\ m.test_cases_run = Len(m.tests)
        /\ m.test_cases_passed = Cardinality(HasStatus(m.tests, "passed"))
        /\ m.test_cases_failed = Cardinality(HasStatus(m.tests, "failed"))
        /\ m.test_cases_skipped = Cardinality(HasStatus(m.tests, "skipped"))
        /\ sum + UnknownCount(m.tests) = m.test_cases_run
        /\ sum <= m.test_cases_run
        /\ (sum = m.test_cases_run) <=>
              (\A j \in 1..Len(m.tests) : m.tests[j].status \in Recognized)

\* C1: the aggregator of either run sets testsRun to the number of outcomes
\* and counts each outcome in exactly one of passed / failed / skipped /
\* unknown by its status: passed + failed + skipped + unknown = testsRun,
\* hence passed + failed + skipped <= testsRun, with equality exactly when
\* every status is recognized.
C1_StatusCountsPartition ==
    /\ \A i \in 1..Len(current_data) :
          /\ current_data[i].tests = db_modules[i].tests
          /\ CountsPartition(current_data[i])
    /\ \A i \in 1..Len(previous_data) :
          /\ previous_data[i].tests = db_prev_modules[i].tests
          /\ CountsPartition(previous_data[i])

C1_Witness ==
    /\ Len(current_data) = 1
    /\ Len(previous_data) = 1
    /\ Len(current_data[1].tests) = 2
    /\ UnknownCount(current_data[1].tests) = 1
    /\ current_data[1].test_cases_failed = 1
    /\ UnknownCount(previous_data[1].tests) = 1

\* C2: in every module summary of the current run the four priority failure
\* counts add up to at most testsFailed; each count is the number of failed
\* outcomes of that priority (so no outcome is counted twice and no
\* non-failed outcome is counted); the sum equals testsFailed exactly when
\* every failed outcome has one of the four priorities.
C2_PriorityBuckets ==
    \A i \in 1..Len(current_data) :
        LET m == current_data[i]
            sum == m.highest_priority_failed + m.high_priority_failed
                   + m.medium_priority_failed + m.low_priority_failed
        IN  /\ m.highest_priority_failed = Cardinality(FailedWith(m.tests, "highest"))
            /\ m.high_priority_failed = Cardinality(FailedWith(m.tests, "high"))
            /\ m.medium_priority_failed = Cardinality(FailedWith(m.tests, "medium"))
            /\ m.low_priority_failed = Cardinality(FailedWith(m.tests, "low"))
            /\ sum <= m.test_cases_failed
            /\ (sum = m.test_cases_failed) <=>
                  (\A j \in HasStatus(m.tests, "failed") : m.tests[j].priority \in Priorities)

C2_Witness ==
    /\ Len(current_data) = 1
    /\ \E j, k \in 1..Len(current_data[1].tests) :
          /\ current_data[1].tests[j].status = "failed"
          /\ current_data[1].tests[j].priority = "urgent"
          /\ current_data[1].tests[k].status = "passed"
          /\ current_data[1].tests[k].priority = "high"
    /\ current_data[1].test_cases_failed = 1
    /\ current_data[1].high_priority_failed = 0

\* C3: an outcome without a priority is treated as medium everywhere: the
\* test table shows it as medium and, when it failed, the aggregator counts
\* it in mediumPriorityFailed.
C3_AbsentPriorityIsMedium ==
    html # None =>
        \A i \in 1..Len(current_data) :
            LET m == current_data[i]
                rows == html[1].cards[i].test_list
            IN  /\ \A j \in 1..Len(m.tests) :
                      m.tests[j].priority = AbsentStr => rows[j].priority = "medium"
                /\ m.medium_priority_failed =
                      Cardinality({ j \in 1..Len(m.tests) :
                                      /\ m.tests[j].status = "failed"
                                      /\ m.tests[j].priority \in {"medium", AbsentStr} })

\* r is an integer nearest to 100 * passed / total (0 for an empty run)
IsPassRate(r, passed, total) ==
    /\ (total = 0) => (r = 0)
    /\ (total > 0) => /\ 2 * total * r - 200 * passed <= total
                      /\ 200 * passed - 2 * total * r <= total
    /\ (passed = 7 /\ total = 9) => (r = 78)
    /\ (passed = 13 /\ total = 15) => (r = 87)

\* C4: whenever 0 <= totalPassed <= totalTests, the pass rate of the PDF
\* summary and of the HTML report is 0 for an empty run and otherwise an
\* integer within 1/2 of 100 * totalPassed / totalTests (7 of 9 is 78,
\* 13 of 15 is 87).
C4_PassRateRounded ==
    /\ (summary # None /\ summary[1].total_passed <= summary[1].total_tests) =>
          IsPassRate(summary[1].pass_rate, summary[1].total_passed, summary[1].total_tests)
    /\ (html # None /\ html[1].total_passed <= html[1].total_tests) =>
          IsPassRate(html[1].pass_rate, html[1].total_passed, html[1].total_tests)

C4_Witness ==
    /\ summary # None
    /\ summary[1].total_passed = 7
    /\ summary[1].total_tests = 9
    /\ summary[1].pass_rate = 78

\* the sum of f over the positions of a sequence, taken in any order
RECURSIVE SumAt(_, _, _)
SumAt(rows, field, idx) ==
    IF idx = {} THEN 0
    ELSE LET i == CHOOSE x \in idx : TRUE
             v == IF field = "run" THEN rows[i].test_cases_run
                  ELSE IF field = "passed" THEN rows[i].test_cases_passed
                  ELSE IF field = "failed" THEN rows[i].test_cases_failed
                  ELSE rows[i].test_cases_skipped
         IN  (IF v = AbsentNum THEN 0 ELSE v) + SumAt(rows, field, idx \ {i})

Reorderings(rows) ==
    { [i \in 1..Len(rows) |-> rows[f[i]]] : f \in Permutations(1..Len(rows)) }

Totals(s) == << s.total_tests, s.total_passed, s.total_failed, s.total_skipped >>

SumsOf(rows) ==
    << SumAt(rows, "run", 1..Len(rows)), SumAt(rows, "passed", 1..Len(rows)),
       SumAt(rows, "failed", 1..Len(rows)), SumAt(rows, "skipped", 1..Len(rows)) >>

LoginPayments(rows) ==
    /\ Len(rows) = 2
    /\ \E i, j \in 1..2 :
          /\ << rows[i].test_cases_run, rows[i].test_cases_passed,
                rows[i].test_cases_failed, rows[i].test_cases_skipped >> = << 10, 8, 2, 0 >>
          /\ << rows[j].test_cases_run, rows[j].test_cases_passed,
                rows[j].test_cases_failed, rows[j].test_cases_skipped >> = << 5, 5, 0, 0 >>

\* C5: the run-level reducer returns the number of modules and the sums of
\* the four counts over the modules (a missing count adds 0), and returns
\* the same summary for every reordering of the modules; login(10,8,2,0)
\* with payments(5,5,0,0) gives 15, 13, 2, 0 and a pass rate of 87.
C5_ReducerSumsAnyOrder ==
    /\ summary # None =>
          /\ summary[1].total_modules = Len(records)
          /\ Totals(summary[1]) = SumsOf(records)
          /\ \A r \in Reorderings(records) : CalculateSummary(r) = summary[1]
          /\ LoginPayments(records) =>
                /\ Totals(summary[1]) = << 15, 13, 2, 0 >>
                /\ summary[1].pass_rate = 87
    /\ html # None =>
          /\ html[1].module_count = Len(current_data)
          /\ Totals(html[1]) = SumsOf(current_data)
          /\ \A r \in Reorderings(current_data) :
                LET h == CreateHtml(r, PrevMap(previous_data), version_info.current_version,
                                    version_info.previous_version,
                                    version_info.previous_run_id, env_repo_version)
                IN  /\ Totals(h) = Totals(html[1])
                    /\ h.pass_rate = html[1].pass_rate
                    /\ h.module_count = html[1].module_count

C5_Witness ==
    /\ summary # None
    /\ Len(records) = 3
    /\ \E i \in 1..3 : records[i].module_name = "search"
    /\ Totals(summary[1]) = << 18, 14, 3, 1 >>
    /\ summary[1].pass_rate = 78

\* the outcomes of the previous run's module of that name, as fetched
PrevTestsOf(module_name) ==
    LET ks == { k \in 1..Len(previous_data) : previous_data[k].module_name = module_name }
    IN  IF ks = {} THEN <<>> ELSE previous_data[CHOOSE k \in ks : TRUE].tests

\* the positions of the previous outcomes a current test name matches
MatchesOf(prev_tests, test_name) ==
    { k \in 1..Len(prev_tests) : PrevTestName(prev_tests[k]) = test_name }

\* a duration is present in the outcome, whatever its value
HasDuration(t) == t.duration_ms # AbsentNum \/ t.duration # AbsentNum

SetMin(S) == CHOOSE x \in S : \A y \in S : x <= y

SetMax(S) == CHOOSE x \in S : \A y \in S : x >= y

\* the positions (module, test) of the rows of the rendered report
RowPositions ==
    IF html = None THEN {}
    ELSE UNION { { << i, j >> : j \in 1..Len(current_data[i].tests) } :
                   i \in 1..Len(current_data) }

RowAt(p) == html[1].cards[p[1]].test_list[p[2]]

TestAt(p) == current_data[p[1]].tests[p[2]]

PrevAt(p) == PrevTestsOf(current_data[p[1]].module_name)

\* the row shows the delta of duration cur against duration prev
ShowsDelta(row, cur, prev) ==
    /\ row.time_diff # None
    /\ row.time_diff[1].time_diff = cur - prev
    /\ row.time_diff[1].percent_change.num * prev
          = 100 * (cur - prev) * row.time_diff[1].percent_change.den
    /\ row.time_diff[1].class = IF cur - prev > 0 THEN "worse"
                                ELSE IF cur - prev < 0 THEN "better" ELSE "same"

\* C6: a current test matched by name to a previous test, both with a
\* duration available, gets durationDelta = current - previous,
\* percentChange = 100 * durationDelta / previous, and the class worse,
\* better or same by the sign of the delta (1200 against 1000: 200, 20.0,
\* worse; 800 against 1000: -200, -20.0, better).
C6_DurationDelta ==
    \A p \in RowPositions :
        LET ms == MatchesOf(PrevAt(p), RowAt(p).test_name)
        IN  ( /\ ms # {}
              /\ HasDuration(TestAt(p))
              /\ \A k \in ms : HasDuration(PrevAt(p)[k]) /\ DurationOf(PrevAt(p)[k]) > 0 )
            => \E k \in ms :
                  ShowsDelta(RowAt(p), DurationOf(TestAt(p)), DurationOf(PrevAt(p)[k]))

\* C6 for durations other than 0 ms
C6_NonZeroDurationDelta ==
    \A p \in RowPositions :
        LET ms == MatchesOf(PrevAt(p), RowAt(p).test_name)
        IN  ( /\ ms # {}
              /\ HasDuration(TestAt(p)) /\ DurationOf(TestAt(p)) > 0
              /\ \A k \in ms : HasDuration(PrevAt(p)[k]) /\ DurationOf(PrevAt(p)[k]) > 0 )
            => \E k \in ms :
                  ShowsDelta(RowAt(p), DurationOf(TestAt(p)), DurationOf(PrevAt(p)[k]))

\* C7: an absent duration is not a zero duration and 0 ms is a real value:
\* a test whose current or previous duration is absent gets no delta, and a
\* test with a current duration of 0 and a positive previous duration gets
\* durationDelta = -previous and the class better.
C7_ZeroIsNotAbsent ==
    \A p \in RowPositions :
        LET ms == MatchesOf(PrevAt(p), RowAt(p).test_name)
        IN  /\ ( \/ ~HasDuration(TestAt(p))
                 \/ (ms # {} /\ \A k \in ms : ~HasDuration(PrevAt(p)[k])) )
               => RowAt(p).time_diff = None
            /\ ( /\ ms # {}
                 /\ HasDuration(TestAt(p)) /\ DurationOf(TestAt(p)) = 0
                 /\ \A k \in ms : HasDuration(PrevAt(p)[k]) /\ DurationOf(PrevAt(p)[k]) > 0 )
               => \E k \in ms :
                     /\ ShowsDelta(RowAt(p), 0, DurationOf(PrevAt(p)[k]))
                     /\ RowAt(p).time_diff[1].class = "better"

\* the row compares the current test with the previous outcome prev_test
ComparedWith(row, test, prev_test) ==
    /\ row.prev_time = IF Truthy(DurationOf(prev_test))
                       THEN Some(FormatSeconds(DurationOf(prev_test))) ELSE None
    /\ (row.time_diff # None) <=> (Truthy(DurationOf(test)) /\ Truthy(DurationOf(prev_test)))
    /\ (row.time_diff # None) =>
          row.time_diff[1].time_diff = DurationOf(test) - DurationOf(prev_test)

\* C8 as stated: with several previous outcomes of the same name, the delta
\* of a current test of that name is taken against the first of them in the
\* previous module's sequence.
C8_FirstMatchUsed ==
    \A p \in RowPositions :
        LET ms == MatchesOf(PrevAt(p), RowAt(p).test_name)
        IN  ms # {} => ComparedWith(RowAt(p), TestAt(p), PrevAt(p)[SetMin(ms)])

\* C8, amended: with several previous outcomes of the same name, the delta
\* of a current test of that name is taken against the last of them in the
\* previous module's sequence, not an earlier one.
C8_LastMatchUsed ==
    \A p \in RowPositions :
        LET ms == MatchesOf(PrevAt(p), RowAt(p).test_name)
        IN  ms # {} => ComparedWith(RowAt(p), TestAt(p), PrevAt(p)[SetMax(ms)])

C8_Witness ==
    \E p \in RowPositions :
        LET ms == MatchesOf(PrevAt(p), RowAt(p).test_name)
        IN  /\ Cardinality(ms) = 2
            /\ DurationOf(PrevAt(p)[SetMin(ms)]) = 800
            /\ DurationOf(PrevAt(p)[SetMax(ms)]) = 1000
            /\ DurationOf(TestAt(p)) = 1200
            /\ RowAt(p).time_diff # None
            /\ RowAt(p).time_diff[1].time_diff = 200

\* the positions (current module, previous module) of equal module names
SameNamePairs ==
    IF html = None THEN {}
    ELSE { q \in (1..Len(current_data)) \X (1..Len(previous_data)) :
             current_data[q[1]].module_name = previous_data[q[2]].module_name }

\* C9: for a module present in both runs, passedDelta is current minus
\* previous passed and is better when positive, worse when negative, same
\* when 0; failedDelta is current minus previous failed and is worse when
\* positive, better when negative, same when 0; skippedDelta is current
\* minus previous skipped and carries no better / worse class whatever its
\* sign.
C9_ModuleDeltaClasses ==
    \A q \in SameNamePairs :
        LET cur == current_data[q[1]]
            prev == previous_data[q[2]]
            card == html[1].cards[q[1]]
        IN  /\ card.comparison # None
            /\ card.comparison[1].passed_diff = cur.test_cases_passed - prev.test_cases_passed
            /\ card.comparison[1].failed_diff = cur.test_cases_failed - prev.test_cases_failed
            /\ card.comparison[1].skipped_diff
                  = cur.test_cases_skipped - prev.test_cases_skipped
            /\ card.comparison[1].passed_class =
                  IF cur.test_cases_passed > prev.test_cases_passed THEN "better"
                  ELSE IF cur.test_cases_passed < prev.test_cases_passed THEN "worse"
                  ELSE "same"
            /\ card.comparison[1].failed_class =
                  IF cur.test_cases_failed > prev.test_cases_failed THEN "worse"
                  ELSE IF cur.test_cases_failed < prev.test_cases_failed THEN "better"
                  ELSE "same"
            /\ card.comparison[1].skipped_class \notin {"better", "worse"}

C9_Witness ==
    \E q1, q2 \in SameNamePairs :
        /\ html[1].cards[q1[1]].comparison[1].failed_diff = 1
        /\ html[1].cards[q1[1]].comparison[1].failed_class = "worse"
        /\ html[1].cards[q1[1]].comparison[1].passed_diff = -1
        /\ html[1].cards[q1[1]].comparison[1].passed_class = "worse"
        /\ html[1].cards[q2[1]].comparison[1].skipped_diff = 1
        /\ html[1].cards[q2[1]].comparison[1].skipped_class = "same"

\* C10: a current module whose name is the name of no previous module gets
\* no comparison block at all (not a block of zero deltas), and a current
\* module whose name is the name of a previous module gets one.
C10_ComparisonOnlyWithBaseline ==
    html # None =>
        \A i \in 1..Len(current_data) :
            (html[1].cards[i].comparison # None)
               <=> (\E k \in 1..Len(previous_data) :
                       previous_data[k].module_name = current_data[i].module_name)

C10_Witness ==
    /\ html # None
    /\ Len(current_data) = 2
    /\ Len(previous_data) = 1
    /\ previous_data[1].module_name = "login"
    /\ html[1].cards[1].comparison # None
    /\ html[1].cards[2].module_name = "payments"
    /\ html[1].cards[2].comparison = None

\* the previous outcomes a test may be compared with: those of the previous
\* module of the same name that carry the name the row shows
Baselines(p) ==
    { k \in 1..Len(PrevAt(p)) : CurTestName(PrevAt(p)[k]) = RowAt(p).test_name }

\* C11: a current test gets a duration delta only if the previous run has a
\* module of the same name with an outcome of the same test name; otherwise
\* (no such module, or no such test in it) the delta is not-applicable, never
\* "same" and never a zero difference.
C11_DeltaOnlyWithBaseline ==
    \A p \in RowPositions :
        Baselines(p) = {} => /\ RowAt(p).time_diff = None
                             /\ RowAt(p).prev_time = None

C11_Witness ==
    \E p \in RowPositions :
        /\ Len(previous_data) = 1
        /\ previous_data[1].module_name = "payments"
        /\ Len(previous_data[1].tests) = 1
        /\ CurTestName(previous_data[1].tests[1]) = RowAt(p).test_name
        /\ DurationOf(previous_data[1].tests[1]) = 1000
        /\ DurationOf(TestAt(p)) = 1000
        /\ RowAt(p).time_diff = None

\* C12: the differ never divides by zero: a matched pair whose previous
\* duration is zero or absent gets no percentage (the delta is
\* not-applicable), and whenever a percentage is divided the divisor is the
\* previous duration and is greater than 0.
C12_NoDivisionByZero ==
    \A p \in RowPositions :
        LET ms == MatchesOf(PrevAt(p), RowAt(p).test_name)
        IN  /\ (ms # {} /\ ~Truthy(DurationOf(PrevAt(p)[SetMax(ms)])))
               => RowAt(p).time_diff = None
            /\ (RowAt(p).time_diff # None /\ RowAt(p).time_diff[1].divisor # None)
               => /\ RowAt(p).time_diff[1].divisor[1] > 0
                  /\ ms # {}
                  /\ RowAt(p).time_diff[1].divisor[1] = DurationOf(PrevAt(p)[SetMax(ms)])
                  /\ RowAt(p).time_diff[1].percent_change.den
                        = RowAt(p).time_diff[1].divisor[1]

C12_Witness ==
    \E p \in RowPositions :
        LET ms == MatchesOf(PrevAt(p), RowAt(p).test_name)
        IN  /\ ms # {}
            /\ HasDuration(PrevAt(p)[SetMax(ms)])
            /\ DurationOf(PrevAt(p)[SetMax(ms)]) = 0
            /\ DurationOf(TestAt(p)) = 1000
            /\ RowAt(p).time_diff = None

----------------------------------------------------------------------------
(* Properties of whole invocations *)

CallsOf(op) == { i \in DOMAIN calls : calls[i].op = op }

FailedCalls(ops) == { i \in DOMAIN calls : calls[i].op \in ops /\ ~calls[i].ok }

QueryOps ==
    {"login", "query_current", "query_version", "query_pointer", "query_prev_modules",
     "query_summary"}

FileOps == {"makedirs", "write"}

SlackOps == {"slack_history", "slack_upload"}

ArtifactOnDisk ==
    /\ fs.dir
    /\ fs.file # None
    /\ fs.file[1].complete

\* the record of the current run exists and carries no previous-run pointer
InitialRun ==
    /\ cron_run_id = "run-1"
    /\ db_run # None
    /\ db_run[1].previous_run_id \in {AbsentStr, ""}

\* C13: when the current run's record has no previous-run pointer (absent or
\* empty) no query for previous modules is issued, the report has no
\* 'Comparing with' header text, no module comparison block and no test
\* duration delta, and the generation succeeds (artifact written, path
\* returned, exit code 0) whenever its own queries and the write succeed.
C13_InitialRunIsValid ==
    InitialRun =>
        /\ CallsOf("query_prev_modules") = {}
        /\ previous_data = <<>>
        /\ html # None =>
              /\ html[1].comparison_info.text = ""
              /\ \A i \in 1..Len(html[1].cards) :
                    /\ html[1].cards[i].comparison = None
                    /\ \A j \in 1..Len(html[1].cards[i].test_list) :
                          /\ html[1].cards[i].test_list[j].time_diff = None
                          /\ html[1].cards[i].test_list[j].prev_time = None
        /\ (/\ pc \in {"find_pdf", "upload", "exit"}
            /\ db_modules # <<>>
            /\ FailedCalls(QueryOps \cup FileOps) = {})
           => /\ output_path = Some(Path("run-1", "html"))
              /\ ArtifactOnDisk
              /\ html # None
              /\ pc = "exit" => exit_code = 0

C13_Witness ==
    /\ InitialRun
    /\ db_run[1].previous_run_id = ""
    /\ db_run[1].previous_version = "v1"
    /\ db_prev_modules # <<>>
    /\ pc = "exit"
    /\ exit_code = 0
    /\ CallsOf("query_pointer") # {}
    /\ html[1].comparison_info.text = ""
    /\ html[1].cards[1].comparison = None
    /\ ArtifactOnDisk

\* the pointer stored in the current run's record
PointerOf(id) == RunRowOf(id)[1].previous_run_id

\* C14: the previous run of every comparison is the run named by the current
\* run's previous_run_id: previous modules are only ever queried with that
\* identifier, the data compared against are the modules of that run, and
\* the run identifier and version printed in the header are the stored
\* pointer and the version stored with it.
C14_PreviousRunIsThePointer ==
    /\ \A i \in CallsOf("query_prev_modules") :
          /\ RunRowOf(cron_run_id) # None
          /\ calls[i].arg = PointerOf(cron_run_id)
    /\ previous_data # <<>> =>
          /\ RunRowOf(cron_run_id) # None
          /\ CallsOf("query_prev_modules") # {}
          /\ \/ /\ PointerOf(cron_run_id) = "run-0"
                /\ previous_data = ParsePrevModules(db_prev_modules)
             \/ /\ PointerOf(cron_run_id) = "run-1"
                /\ previous_data = ParsePrevModules(db_modules)
    /\ (html # None /\ html[1].comparison_info.previous_run_id # AbsentStr) =>
          /\ RunRowOf(cron_run_id) # None
          /\ html[1].comparison_info.previous_run_id = PointerOf(cron_run_id)
          /\ html[1].comparison_info.previous_version
                = RunRowOf(cron_run_id)[1].previous_version
          /\ \A i \in CallsOf("query_prev_modules") :
                calls[i].arg = html[1].comparison_info.previous_run_id

C14_Witness ==
    /\ cron_run_id = "run-1"
    /\ db_run # None
    /\ db_run[1].previous_run_id = "run-8"
    /\ db_prev_modules # <<>>
    /\ \E i \in CallsOf("query_prev_modules") : calls[i].ok /\ calls[i].arg = "run-8"
    /\ html # None
    /\ html[1].comparison_info.previous_run_id = "run-8"
    /\ html[1].cards[1].comparison = None

\* the output line of the script that runs, for the artifact at path
ExpectedLine(path) ==
    [tag |-> IF script = "html" THEN "HTML_OUTPUT_PATH" ELSE "PDF_OUTPUT_PATH",
     path |-> path]

\* C15: once an artifact has been generated, no outcome of the chat delivery
\* (notifier not configured, HTTP error, API error, exception in the upload or
\* in the thread lookup, and for the PDF script a failed second fetch)
\* removes or changes the artifact file, and the process still prints the
\* output-path line and exits with code 0, in both scripts.
C15_DeliveryNeverInvalidates ==
    output_path # None =>
        /\ ArtifactOnDisk
        /\ fs.file[1].path = output_path[1]
        /\ pc \in {"find_pdf", "upload", "refetch", "send_pdf", "exit"}
        /\ pc = "exit" => /\ exit_code = 0
                          /\ stdout = << ExpectedLine(output_path[1]) >>

C15_Witness ==
    /\ script = "html"
    /\ pc = "exit"
    /\ output_path # None
    /\ \E i \in CallsOf("slack_history") : ~calls[i].ok
    /\ \E i \in CallsOf("slack_upload") : ~calls[i].ok
    /\ ArtifactOnDisk
    /\ exit_code = 0

\* the calls of the query collaborator made while the report is generated:
\* those before the first call to the file system
GenerationCalls ==
    { i \in DOMAIN calls :
        /\ calls[i].op \in QueryOps
        /\ \A k \in 1..i : calls[k].op \notin FileOps }

\* C16: if any call to the query collaborator fails while the report is
\* generated (current modules, version and pointer, previous modules), the
\* generation aborts: no artifact file is produced, no path is returned and
\* the process exits non-zero.
C16_AnyFetchErrorAborts ==
    (\E i \in GenerationCalls : ~calls[i].ok) =>
        /\ ~ArtifactOnDisk
        /\ output_path = None
        /\ pc = "exit" => exit_code # 0

\* what does hold: a failure of the login, of the query of the current
\* modules, of the version query or of the query of the PDF script aborts
\* the generation without any file
C16_CurrentFetchErrorAborts ==
    (\E i \in GenerationCalls :
        ~calls[i].ok /\ calls[i].op \notin {"query_pointer", "query_prev_modules"}) =>
        /\ fs = [dir |-> FALSE, file |-> None]
        /\ output_path = None
        /\ html = None
        /\ pc = "exit"
        /\ exit_code = 1

\* the run identifier is given and the first query found no rows for it
ZeroRecordsExit ==
    /\ pc = "exit"
    /\ ~MissingRunId(cron_run_id)
    /\ FailedCalls(QueryOps) = {}
    /\ CallsOf("query_current") \cup CallsOf("query_summary") # {}
    /\ current_data = <<>>
    /\ records = <<>>

\* the login or the first query failed
FetchErrorExit ==
    /\ pc = "exit"
    /\ \E i \in GenerationCalls :
          ~calls[i].ok /\ calls[i].op \in {"login", "query_current", "query_summary"}

\* C17: a run identifier without records ends the process with a non-zero
\* exit code that a failed fetch never produces.  The code a run without
\* records ends with is MainExit(None), so the claim is that a failed fetch
\* ends with another non-zero code.
C17_DistinctExitCodes ==
    /\ ZeroRecordsExit => (exit_code # 0 /\ exit_code = MainExit(None))
    /\ FetchErrorExit => (exit_code # 0 /\ exit_code # MainExit(None))

\* what does hold: both end with the same non-zero code
C17_SameExitCode ==
    /\ ZeroRecordsExit => exit_code = 1
    /\ FetchErrorExit => exit_code = 1

\* the table the script reads holds no row of the run identifier
NoRowsOfRun ==
    IF script = "html"
    THEN \/ cron_run_id = "run-1" /\ db_modules = <<>>
         \/ cron_run_id = "run-0" /\ db_prev_modules = <<>>
         \/ cron_run_id \notin {"run-1", "run-0"}
    ELSE \/ cron_run_id = "run-1" /\ db_summary = <<>>
         \/ cron_run_id # "run-1"

\* C18: a first query that succeeds without rows, because the run has no
\* rows or because no run has the identifier, is handled in one way: the
\* result is empty (the PDF script's None is tested like an empty list),
\* nothing is raised, no file and no reports directory is written, no
\* delivery is attempted and the process exits non-zero.
C18_EmptyResultHandledAlike ==
    (/\ ~MissingRunId(cron_run_id)
     /\ cron_run_id # NoneVal
     /\ NoRowsOfRun
     /\ \E i \in CallsOf("query_current") \cup CallsOf("query_summary") : calls[i].ok)
    => /\ pc = "exit"
       /\ current_data = <<>>
       /\ records = <<>>
       /\ output_path = None
       /\ fs = [dir |-> FALSE, file |-> None]
       /\ FailedCalls(QueryOps) = {}
       /\ \A i \in DOMAIN calls : calls[i].op \notin FileOps \cup SlackOps
       /\ stdout = <<>>
       /\ exit_code = 1

C18_Witness ==
    /\ script = "html"
    /\ cron_run_id = "run-9"
    /\ db_modules # <<>>
    /\ \E i \in CallsOf("query_current") : calls[i].ok /\ calls[i].arg = "run-9"
    /\ pc = "exit"
    /\ exit_code = 1
    /\ fs.dir = FALSE

\* neither an argument nor a non-empty CRON_RUN_ID is given
NoRunIdSupplied == argv1 = AbsentStr /\ env_run_id \in {AbsentStr, ""}

\* C19: without a run identifier (no argument, CRON_RUN_ID unset or empty)
\* an entry point exits non-zero before anything else: no login, no query, no
\* file or directory, no chat call; when an argument is given, also beside a
\* CRON_RUN_ID, the argument is the identifier used in every call.
C19_UsageError ==
    pc # "main" =>
        /\ NoRunIdSupplied =>
              /\ pc = "exit"
              /\ exit_code = 1
              /\ calls = <<>>
              /\ auth_token = NoneVal
              /\ fs = [dir |-> FALSE, file |-> None]
              /\ stdout = <<>>
        /\ argv1 # AbsentStr =>
              /\ cron_run_id = argv1
              /\ \A i \in DOMAIN calls :
                    calls[i].op \in {"query_current", "query_version", "query_pointer",
                                     "query_summary", "slack_history"}
                       => calls[i].arg = argv1
              /\ fs.file # None => fs.file[1].path.cron_run_id = argv1

C19_Witness ==
    /\ argv1 = AbsentStr
    /\ env_run_id = ""
    /\ pc = "exit"
    /\ exit_code = 1
    /\ calls = <<>>

\* C20: an entry point exits with code 0 exactly when the artifact was
\* generated; in that case it has printed exactly one output-path line, with
\* the tag of the script and the path of the file written, and in every
\* other run it prints no such line.
C20_ExitZeroIffGenerated ==
    /\ pc # "exit" => (exit_code = AbsentNum /\ stdout = <<>>)
    /\ pc = "exit" =>
          /\ exit_code \in {0, 1}
          /\ exit_code = 0 <=> ArtifactOnDisk
          /\ exit_code = 0 <=> output_path # None
          /\ exit_code = 0 => stdout = << ExpectedLine(fs.file[1].path) >>
          /\ exit_code # 0 => stdout = <<>>

C20_Witness ==
    /\ script = "pdf"
    /\ pc = "exit"
    /\ exit_code = 0
    /\ ArtifactOnDisk
    /\ stdout = << [tag |-> "PDF_OUTPUT_PATH", path |-> Path("run-1", "pdf")] >>

----------------------------------------------------------------------------
(* Properties of the rendered report and of delivery *)

\* C28: every module card gets one status out of passed, failed, partial:
\* passed exactly when no outcome failed and every outcome passed (so also
\* for a module without outcomes), failed exactly when an outcome failed, and
\* partial otherwise, so without failures but with a skipped or
\* unknown-status outcome the card is partial, never passed.
C28_ModuleStatus ==
    html # None =>
        \A i \in 1..Len(html[1].cards) :
            LET tests == db_modules[i].tests
                failed == Cardinality(HasStatus(tests, "failed"))
                passed == Cardinality(HasStatus(tests, "passed"))
                class == html[1].cards[i].status_class
            IN  /\ class \in {"passed", "failed", "partial"}
                /\ class = "passed" <=> (failed = 0 /\ passed = Len(tests))
                /\ class = "failed" <=> failed > 0
                /\ Len(tests) = 0 => class = "passed"
                /\ (failed = 0 /\ passed < Len(tests)) => class = "partial"

C28_Witness ==
    /\ html # None
    /\ Len(db_modules[1].tests) = 2
    /\ db_modules[1].tests[1].status = "passed"
    /\ db_modules[1].tests[2].status = "skipped"
    /\ html[1].cards[1].status_class = "partial"

\* the run totals and the pass rate shown by either script
ShownRates ==
    (IF html # None
     THEN { [passed |-> html[1].total_passed, total |-> html[1].total_tests,
             rate |-> html[1].pass_rate] }
     ELSE {})
    \cup (IF summary # None
          THEN { [passed |-> summary[1].total_passed, total |-> summary[1].total_tests,
                  rate |-> summary[1].pass_rate] }
          ELSE {})

\* C30: for totals with 1 <= totalTests and 0 <= totalPassed <= totalTests
\* the displayed pass rate lies in 0..100 and is 100 only if every test
\* passed.
C30_FullRateOnlyIfAllPassed ==
    \A r \in ShownRates :
        (r.total >= 1 /\ 0 <= r.passed /\ r.passed <= r.total) =>
            /\ r.rate \in 0..100
            /\ r.rate = 100 => r.passed = r.total

\* what does hold: the rate is 100 only from 99.5 percent passed on, and it
\* is 100 when every test passed
C30_FullRateOnlyFromHalfPercent ==
    \A r \in ShownRates :
        (r.total >= 1 /\ 0 <= r.passed /\ r.passed <= r.total) =>
            /\ r.rate \in 0..100
            /\ r.rate = 100 => 200 * r.passed >= 199 * r.total
            /\ r.passed = r.total => r.rate = 100

C30_Witness ==
    \E r \in ShownRates :
        /\ r.total >= ManyTests
        /\ r.passed = r.total - 1
        /\ r.rate = 100

FetchOps == QueryOps \ {"login"}

\* positions of the calls that wrote the artifact completely
Persisted == { i \in CallsOf("write") : calls[i].ok }

\* C21: the stages of one invocation run in the order fetch, ..., persist,
\* deliver and each runs once: no call to the chat service is made before the
\* artifact has been persisted, no query is sent after it has been persisted,
\* and no query is sent twice.
C21_StagesInOrder ==
    /\ \A j \in DOMAIN calls :
          calls[j].op \in SlackOps => \E i \in Persisted : i < j
    /\ \A i \in Persisted : \A j \in DOMAIN calls :
          j > i => calls[j].op \notin QueryOps
    /\ \A op \in FetchOps \cup {"write"} : Cardinality(CallsOf(op)) <= 1

\* what does hold: the order and the single pass in the HTML script, and in
\* the PDF script that delivery comes after the artifact
C21_HtmlStagesInOrder ==
    /\ \A j \in DOMAIN calls :
          calls[j].op \in SlackOps => \E i \in Persisted : i < j
    /\ script = "html" =>
          /\ \A i \in Persisted : \A j \in DOMAIN calls :
                j > i => calls[j].op \notin QueryOps
          /\ \A op \in FetchOps \cup {"write"} : Cardinality(CallsOf(op)) <= 1

\* C22: the artifact is never at its final path in a truncated state: a
\* failure before the write completes leaves no file at that path.
C22_NoTruncatedArtifact ==
    fs.file # None => fs.file[1].complete

\* C25: no query is sent unless a login has succeeded before and a token is
\* held; the login endpoint is called at most once per invocation, so it is
\* not called again after a success and a failed login is not retried.
C25_LoginOnceBeforeQueries ==
    /\ \A j \in DOMAIN calls :
          calls[j].op \in FetchOps =>
              /\ \E i \in 1..(j - 1) : calls[i].op = "login" /\ calls[i].ok
              /\ auth_token = "token"
    /\ Cardinality(CallsOf("login")) <= 1
    /\ \A i \in CallsOf("login") : i = 1
    /\ (\E i \in CallsOf("login") : ~calls[i].ok) =>
          /\ auth_token = NoneVal
          /\ Len(calls) = 1
          /\ pc = "exit"

C25_Witness ==
    /\ script = "pdf"
    /\ pc = "exit"
    /\ Cardinality(CallsOf("query_summary")) = 2
    /\ Cardinality(CallsOf("login")) = 1
    /\ calls[1] = Call("login", "", TRUE)

\* C29: the header announces a comparison exactly when previous-run module
\* data was obtained (the previous-module map is not empty), and it names a
\* previous version and run only if some module of the report has a
\* comparison.  Stated for the runs in which every query and the write
\* succeeded, where it already fails.
C29_HeaderIffCompared ==
    (html # None /\ FailedCalls(QueryOps \cup FileOps) = {}) =>
        /\ html[1].comparison_info.text # "" <=> previous_data # <<>>
        /\ html[1].comparison_info.previous_run_id # AbsentStr =>
              \E i \in 1..Len(html[1].cards) : html[1].cards[i].comparison # None

\* what does hold: obtained previous data is always announced
C29_ComparedIsAnnounced ==
    html # None =>
        (previous_data # <<>> => html[1].comparison_info.text # "")

\* what create_html gives for the arguments of this run when REPO_VERSION is e
RenderedUnder(e) ==
    CreateHtml(current_data, PrevMap(previous_data), version_info.current_version,
               version_info.previous_version, version_info.previous_run_id, e)

\* C23: rendering is a function of the renderer's arguments alone: whatever
\* REPO_VERSION is in the process environment, create_html gives the output it
\* gave for the same module list, previous-module map and version arguments.
\* Stated for the runs in which every query and the write succeeded.
C23_RenderingIgnoresEnvironment ==
    (html # None /\ FailedCalls(QueryOps \cup FileOps) = {}) =>
        \A e \in RepoVersionEnvs : RenderedUnder(e) = html[1]

\* what does hold: the environment is read only when the run has no version
C23_EnvironmentOnlyWithoutVersion ==
    (html # None /\ version_info.current_version # "N/A") =>
        \A e \in RepoVersionEnvs : RenderedUnder(e) = html[1]

\* the values of an upload result that stand for success
SuccessValues == {"permalink", "True"}

\* C24: the upload returns a success value exactly when the chat service
\* accepted the upload, and main reports the delivery as successful exactly
\* when the chat service accepted it.
C24_ReportedIffAccepted ==
    delivery # None =>
        /\ delivery[1].result \in SuccessValues <=> delivery[1].accepted
        /\ delivery[1].reported <=> delivery[1].accepted

\* what does hold: a delivery reported as successful was accepted, and the
\* PDF script reports every accepted delivery
C24_ReportedWasAccepted ==
    delivery # None =>
        /\ delivery[1].reported => delivery[1].accepted
        /\ script = "pdf" => (delivery[1].reported <=> delivery[1].accepted)

\* C26: the summary statistics and the environment of the chat caption of the
\* PDF script equal those rendered in the attached artifact, even if the rows
\* of the run change while the invocation is running.
C26_CaptionMatchesArtifact ==
    (script = "pdf" /\ delivery # None /\ delivery[1].caption # None) =>
        /\ delivery[1].caption[1].summary = summary[1]
        /\ delivery[1].caption[1].environment = EnvironmentOf(records)

\* what does hold: the caption matches the artifact when both fetches
\* returned the same rows
C26_CaptionMatchesUnchangedRows ==
    (script = "pdf" /\ delivery # None /\ delivery[1].caption # None
     /\ main_records = records) =>
        /\ delivery[1].caption[1].summary = summary[1]
        /\ delivery[1].caption[1].environment = EnvironmentOf(records)

\* the 20 most recent messages of the channel that announce the PDF report of
\* run id
PdfAnnouncements(id) ==
    { k \in 1..Len(channel) : k <= 20 /\ channel[k].run = id /\ channel[k].pdf }

\* C27: the HTML report is uploaded as a thread reply only to the first of
\* the 20 most recent channel messages that announces the PDF report of the
\* same run identifier; when there is none, or the lookup fails, it is
\* uploaded unthreaded, never under a message of a different run.
C27_ThreadsOnlyUnderSameRun ==
    \A i \in CallsOf("slack_upload") :
        script = "html" =>
            IF FailedCalls({"slack_history"}) = {} /\ PdfAnnouncements(cron_run_id) # {}
            THEN LET first == CHOOSE k \in PdfAnnouncements(cron_run_id) :
                                 \A j \in PdfAnnouncements(cron_run_id) : k <= j
                 IN  calls[i].arg = channel[first].ts
            ELSE calls[i].arg = "channel"

\* what does hold: a failed lookup, or a channel without a PDF message among
\* its 20 most recent, gives an unthreaded upload
C27_UnthreadedWithoutPdfMessage ==
    \A i \in CallsOf("slack_upload") :
        (script = "html"
         /\ \/ FailedCalls({"slack_history"}) # {}
            \/ \A k \in 1..Len(channel) : k <= 20 => ~channel[k].pdf) =>
            calls[i].arg = "channel"

====
